---- MODULE Spec2Model ----
(***************************************************************************)
(* A model of marblecutter's core: render (the pipeline), crop (the margin *)
(* adjuster), read_window (transform planning and the windowed read) and    *)
(* Image.transform.  Each operation has its own specification; the state of *)
(* an operation is one record whose fields carry the names of the function's*)
(* arguments and locals.                                                    *)
(***************************************************************************)
EXTENDS Integers, Sequences, FiniteSets, TLC

VARIABLES render_st, crop_st, rw_st, img_st

vars == <<render_st, crop_st, rw_st, img_st>>

\* Python's None, where a string is expected and where an object is.
None == "None"
NoneObj == [none |-> TRUE]

\* A Python list holding the elements of the sequence s.
List(s) == [items |-> s]

\* The state of an operation that is not part of the specification under check.
Idle == [pc |-> "idle"]

(***************************************************************************)
(* Bounds of the model.                                                     *)
(***************************************************************************)
\* the longest source list handed to render or returned by the catalog
MaxSources == 2
\* the largest elapsed time a Timer reports
MaxElapsed == 1

(***************************************************************************)
(* Helpers on sequences.                                                    *)
(***************************************************************************)
Range(s) == {s[i] : i \in 1..Len(s)}

IsPrefix(s, t) == Len(s) <= Len(t) /\ SubSeq(t, 1, Len(s)) = s

\* The longest sequences <<1, ..., n>>: a list of n source descriptors.
SourceList(n) == [i \in 1..n |-> i]

\* The elements of s (a sequence) whose index is in keep, in s's order.
RECURSIVE Pick(_, _, _)
Pick(s, keep, i) ==
    IF i > Len(s) THEN <<>>
    ELSE (IF i \in keep THEN <<s[i]>> ELSE <<>>) \o Pick(s, keep, i + 1)

(***************************************************************************)
(* render                                                                   *)
(***************************************************************************)
\* The arguments render can be called with: sources is None or a sequence,
\* catalog is None or a catalog object, transformation is None or an object.
RenderArgs ==
    [sources : {NoneObj} \cup {List(SourceList(n)) : n \in 0..MaxSources},
     catalog : {None, "catalog"},
     transformation : {None, "transformation"}]

\* stats.append((label, t.elapsed))
AppendStat(st, label, elapsed) ==
    [st EXCEPT !.stats = Append(st.stats, <<label, elapsed>>)]

\* A call of a collaborator, recorded in call order.
Called(st, name) == [st EXCEPT !.calls = Append(st.calls, name)]

\* A step of render leaves the other operations' state alone.
RenderFrame == UNCHANGED <<crop_st, rw_st, img_st>>

\* render's entry: the locals before the first statement.
RenderInit ==
    /\ crop_st = Idle /\ rw_st = Idle /\ img_st = Idle
    /\ \E args \in RenderArgs :
        render_st = [pc |-> "start",
                     args |-> args,
                     sources |-> args.sources,
                     stats |-> <<>>,
                     calls |-> <<>>,
                     offsets |-> None,
                     sources_used |-> <<>>,
                     pixels |-> None,
                     data_format |-> None,
                     formatted |-> NoneObj,
                     error |-> None,
                     returned |-> NoneObj]

\* CheckArguments without the test: render goes on to expand.
CheckArgumentsSkipped ==
    /\ render_st.pc = "start"
    /\ RenderFrame
    /\ render_st' = [render_st EXCEPT !.pc = "expand"]

\* lines 328-332: stats = []; neither sources nor a catalog raises.
CheckArguments ==
    /\ render_st.pc = "start"
    /\ RenderFrame
    /\ render_st' =
         IF render_st.sources = NoneObj /\ render_st.args.catalog = None
         THEN [render_st EXCEPT !.pc = "raised", !.error = "Exception"]
         ELSE [render_st EXCEPT !.pc = "expand"]

\* lines 334-335: transformation.expand, when a transformation was given.
Expand ==
    /\ render_st.pc = "expand"
    /\ RenderFrame
    /\ render_st' =
         IF render_st.args.transformation # None
         THEN [Called(render_st, "expand") EXCEPT !.pc = "get_sources",
                                                  !.offsets = "offsets"]
         ELSE [render_st EXCEPT !.pc = "get_sources"]

\* GetSources that asks the catalog and records no stat.
GetSourcesUntimed ==
    /\ render_st.pc = "get_sources"
    /\ RenderFrame
    /\ IF render_st.sources = NoneObj /\ render_st.args.catalog # None
       THEN \E n \in 0..MaxSources :
               render_st' =
                 [Called(render_st, "get_sources")
                  EXCEPT !.pc = "materialize", !.sources = List(SourceList(n))]
       ELSE render_st' = [render_st EXCEPT !.pc = "materialize"]

\* lines 337-340: the catalog is asked only when no source list was given.
GetSources ==
    /\ render_st.pc = "get_sources"
    /\ RenderFrame
    /\ IF render_st.sources = NoneObj /\ render_st.args.catalog # None
       THEN \E n \in 0..MaxSources, elapsed \in 0..MaxElapsed :
               render_st' =
                 [AppendStat(Called(render_st, "get_sources"),
                             "Get Sources", elapsed)
                  EXCEPT !.pc = "materialize", !.sources = List(SourceList(n))]
       ELSE render_st' = [render_st EXCEPT !.pc = "materialize"]

\* Materialize without the test for an empty list.
MaterializeUnchecked ==
    /\ render_st.pc = "materialize"
    /\ RenderFrame
    /\ render_st' =
         IF render_st.sources = NoneObj
         THEN [render_st EXCEPT !.pc = "raised", !.error = "TypeError"]
         ELSE [render_st EXCEPT !.pc = "composite"]

\* lines 343-346: sources = list(sources), which raises TypeError for None;
\* an empty list raises NoDataAvailable.
Materialize ==
    /\ render_st.pc = "materialize"
    /\ RenderFrame
    /\ render_st' =
         IF render_st.sources = NoneObj
         THEN [render_st EXCEPT !.pc = "raised", !.error = "TypeError"]
         ELSE IF Len(render_st.sources.items) = 0
         THEN [render_st EXCEPT !.pc = "raised", !.error = "NoDataAvailable"]
         ELSE [render_st EXCEPT !.pc = "composite"]

\* lines 348-352: mosaic.composite returns the sources it used and the pixels,
\* whose data may be None.
Composite ==
    /\ render_st.pc = "composite"
    /\ RenderFrame
    /\ \E keep \in SUBSET (1..Len(render_st.sources.items)),
          data \in {None, "data"}, elapsed \in 0..MaxElapsed :
          render_st' =
            [AppendStat(Called(render_st, "composite"), "Composite", elapsed)
             EXCEPT !.pc = "check_data",
                    !.sources_used = Pick(render_st.sources.items, keep, 1),
                    !.pixels = data]

\* lines 354-357: no data raises NoDataAvailable; data_format = "raw".
CheckData ==
    /\ render_st.pc = "check_data"
    /\ RenderFrame
    /\ render_st' =
         IF render_st.pixels = None
         THEN [render_st EXCEPT !.pc = "raised", !.error = "NoDataAvailable"]
         ELSE [render_st EXCEPT !.pc = "transform", !.data_format = "raw"]

\* lines 359-362: transformation.transform.
Transform ==
    /\ render_st.pc = "transform"
    /\ RenderFrame
    /\ IF render_st.args.transformation # None
       THEN \E elapsed \in 0..MaxElapsed, fmt \in {"RGBA", "raw"} :
               render_st' =
                 [AppendStat(Called(render_st, "transform"),
                             "Transform", elapsed)
                  EXCEPT !.pc = "postprocess", !.data_format = fmt,
                         !.pixels = "transformed"]
       ELSE render_st' = [render_st EXCEPT !.pc = "format"]

\* lines 364-367: transformation.postprocess with the offsets of expand.
Postprocess ==
    /\ render_st.pc = "postprocess"
    /\ RenderFrame
    /\ \E elapsed \in 0..MaxElapsed :
          render_st' =
            [AppendStat(Called(render_st, "postprocess"),
                        "Post-process", elapsed)
             EXCEPT !.pc = "format", !.pixels = "postprocessed"]

\* lines 369-371: format(pixels, data_format).
Format ==
    /\ render_st.pc = "format"
    /\ RenderFrame
    /\ \E elapsed \in 0..MaxElapsed :
          render_st' =
            [AppendStat(Called(render_st, "format"), "Format", elapsed)
             EXCEPT !.pc = "headers",
                    !.formatted = [pixels |-> render_st.pixels,
                                   data_format |-> render_st.data_format]]

\* lines 375-390: one "op" entry per stat, then one "src" entry per source
\* used; enumerate() counts from 0.
ServerTiming(stats, sources_used) ==
    [i \in 1..Len(stats) |->
        [kind |-> "op", i |-> i - 1, desc |-> stats[i][1], dur |-> stats[i][2]]]
    \o
    [i \in 1..Len(sources_used) |->
        [kind |-> "src", i |-> i - 1, desc |-> sources_used[i]]]

\* lines 373-393: the headers are assembled and (headers, formatted) returned.
ReturnHeaders ==
    /\ render_st.pc = "headers"
    /\ RenderFrame
    /\ render_st' =
         [render_st EXCEPT
            !.pc = "returned",
            !.returned =
               [headers |->
                  [content_type |-> "content_type",
                   server_timing |->
                      ServerTiming(render_st.stats, render_st.sources_used)],
                formatted |-> render_st.formatted]]

RenderNext ==
    \/ CheckArguments
    \/ Expand
    \/ GetSources
    \/ Materialize
    \/ Composite
    \/ CheckData
    \/ Transform
    \/ Postprocess
    \/ Format
    \/ ReturnHeaders

SpecRender == RenderInit /\ [][RenderNext]_vars

(***************************************************************************)
(* Arrays, slices and affine transforms (numpy and rasterio, as crop uses   *)
(* them)                                                                    *)
(***************************************************************************)
\* the largest number of rows, columns and bands of a buffer, and the largest
\* margin offset
MaxRows == 3
MaxCols == 3
MaxBands == 2
MaxOffset == 2

Min(a, b) == IF a <= b THEN a ELSE b
Max(a, b) == IF a >= b THEN a ELSE b

\* A three-dimensional array is its shape and its elements by 0-based index:
\* [shape |-> <<d1, d2, d3>>, at |-> [Index(shape) -> values]].
Index(shape) ==
    (0..(shape[1] - 1)) \X (0..(shape[2] - 1)) \X (0..(shape[3] - 1))

\* Python's bound of a slice on an axis of length n: a negative bound counts
\* from the end, and both ends are clamped to the axis.
SliceBound(x, n) == IF x < 0 THEN Max(x + n, 0) ELSE Min(x, n)
SliceStart(start, stop, n) == SliceBound(start, n)
SliceLen(start, stop, n) ==
    Max(SliceBound(stop, n) - SliceBound(start, n), 0)

\* a[r0:r1, c0:c1, :] and a[:, r0:r1, c0:c1]
SliceFirstTwo(a, r0, r1, c0, c1) ==
    LET shape == <<SliceLen(r0, r1, a.shape[1]), SliceLen(c0, c1, a.shape[2]),
                   a.shape[3]>>
    IN  [shape |-> shape,
         at |-> [ix \in Index(shape) |->
                   a.at[<<SliceStart(r0, r1, a.shape[1]) + ix[1],
                          SliceStart(c0, c1, a.shape[2]) + ix[2], ix[3]>>]]]
SliceLastTwo(a, r0, r1, c0, c1) ==
    LET shape == <<a.shape[1], SliceLen(r0, r1, a.shape[2]),
                   SliceLen(c0, c1, a.shape[3])>>
    IN  [shape |-> shape,
         at |-> [ix \in Index(shape) |->
                   a.at[<<ix[1], SliceStart(r0, r1, a.shape[2]) + ix[2],
                          SliceStart(c0, c1, a.shape[3]) + ix[3]>>]]]

\* Rationals p/q with q > 0, for coordinates: equality is by cross product.
Rat(p, q) == <<p, q>>
RatEq(x, y) == x[1] * y[2] = y[1] * x[2]
BoundsEq(b1, b2) == \A i \in 1..4 : RatEq(b1[i], b2[i])

\* rasterio.transform.from_bounds(west, south, east, north, width, height):
\* Affine.translation(west, north) * Affine.scale((east - west) / width,
\* (south - north) / height).  The transform applied to (col, row) is
\* (west + col * (east - west) / width, north + row * (south - north) / height).
TransformX(bounds, width, col) ==
    Rat(bounds[1][1] * width + col * (bounds[3][1] - bounds[1][1]),
        bounds[1][2] * width)
TransformY(bounds, height, row) ==
    Rat(bounds[4][1] * height + row * (bounds[2][1] - bounds[4][1]),
        bounds[4][2] * height)

\* rasterio.windows.bounds(Window(col_off, row_off, width, height), t), with t
\* the transform fitted to `bounds` over t_width x t_height pixels: (left,
\* bottom) = t * (col_off, row_off + height) and (right, top) =
\* t * (col_off + width, row_off).
WindowBounds(col_off, row_off, width, height, bounds, t_width, t_height) ==
    <<TransformX(bounds, t_width, col_off),
      TransformY(bounds, t_height, row_off + height),
      TransformX(bounds, t_width, col_off + width),
      TransformY(bounds, t_height, row_off)>>

(***************************************************************************)
(* crop                                                                     *)
(***************************************************************************)
\* _isimage: the tags of the pixel-interleaved layout.
IsImage(data_format) == data_format \in {"RGB", "RGBA"}

\* crop(pixel_collection, data_format, offsets), lines 85-108: the names are
\* those of the code, which unpacks the image layout's shape (rows, columns,
\* bands) as (width, height, _) and builds the window from the offsets and
\* the uncropped width and height.
Crop(data, bounds, data_format, offsets) ==
    LET left == offsets[1]
        bottom == offsets[2]
        right == offsets[3]
        top == offsets[4]
    IN  IF IsImage(data_format)
        THEN LET width == data.shape[1]
                 height == data.shape[2]
             IN  [data |-> SliceFirstTwo(data, top, height - bottom,
                                         left, width - right),
                  bounds |-> WindowBounds(left, top, width, height,
                                          bounds, width, height)]
        ELSE LET height == data.shape[2]
                 width == data.shape[3]
             IN  [data |-> SliceLastTwo(data, top, height - bottom,
                                        left, width - right),
                  bounds |-> WindowBounds(left, top, width, height,
                                          bounds, width, height)]

\* The buffers crop is given: every pixel is told apart by its row, column
\* and band, in the layout of its tag.
ImageData(rows, cols, bands) ==
    [shape |-> <<rows, cols, bands>>,
     at |-> [ix \in Index(<<rows, cols, bands>>) |-> <<ix[1], ix[2], ix[3]>>]]
BandMajorData(rows, cols, bands) ==
    [shape |-> <<bands, rows, cols>>,
     at |-> [ix \in Index(<<bands, rows, cols>>) |-> <<ix[2], ix[3], ix[1]>>]]

CropBounds ==
    {<<Rat(0, 1), Rat(0, 1), Rat(12, 1), Rat(12, 1)>>,
     <<Rat(-12, 1), Rat(-6, 1), Rat(12, 1), Rat(6, 1)>>}

CropFrame == UNCHANGED <<render_st, rw_st, img_st>>

CropInit ==
    /\ render_st = Idle /\ rw_st = Idle /\ img_st = Idle
    /\ \E rows \in 1..MaxRows, cols \in 1..MaxCols, bands \in 1..MaxBands,
          data_format \in {"RGBA", "raw"}, bounds \in CropBounds,
          offsets \in (0..MaxOffset) \X (0..MaxOffset)
                      \X (0..MaxOffset) \X (0..MaxOffset) :
          crop_st = [pc |-> "call",
                     rows |-> rows, cols |-> cols, bands |-> bands,
                     data |-> IF IsImage(data_format)
                              THEN ImageData(rows, cols, bands)
                              ELSE BandMajorData(rows, cols, bands),
                     bounds |-> bounds,
                     data_format |-> data_format,
                     offsets |-> offsets,
                     returned |-> NoneObj]

\* The call of crop: it returns a new PixelCollection.
CropCall ==
    /\ crop_st.pc = "call"
    /\ CropFrame
    /\ crop_st' = [crop_st EXCEPT
                     !.pc = "returned",
                     !.returned = Crop(crop_st.data, crop_st.bounds,
                                       crop_st.data_format, crop_st.offsets)]

CropNext == CropCall

SpecCrop == CropInit /\ [][CropNext]_vars

(***************************************************************************)
(* Claims about crop                                                        *)
(***************************************************************************)
\* The shape (rows, columns) of a buffer in the layout of its tag.
RowsOf(data, data_format) ==
    IF IsImage(data_format) THEN data.shape[1] ELSE data.shape[2]
ColsOf(data, data_format) ==
    IF IsImage(data_format) THEN data.shape[2] ELSE data.shape[3]

\* C4: crop with offsets (0, 0, 0, 0) returns the data it was given (same
\* shape, same values) and the bounds it was given, for every shape and for
\* both layouts.
C4_ZeroOffsetsIdentity ==
    (crop_st.pc = "returned" /\ crop_st.offsets = <<0, 0, 0, 0>>) =>
        /\ crop_st.returned.data = crop_st.data
        /\ BoundsEq(crop_st.returned.bounds, crop_st.bounds)

\* The size of one pixel along x and y.
XRes(st) == Rat(st.bounds[3][1] - st.bounds[1][1], st.cols)
YRes(st) == Rat(st.bounds[4][1] - st.bounds[2][1], st.rows)

\* x + k * res, for an integer coordinate x
Moved(x, k, res) == Rat(x[1] * res[2] + k * res[1], res[2])

\* The offsets with k on edge i (1 left, 2 bottom, 3 right, 4 top) only.
OneEdge(i, k) == [j \in 1..4 |-> IF j = i THEN k ELSE 0]

\* C3: crop with an offset k > 0 on one edge only takes k pixels off that
\* edge's axis, leaves the other axis alone, and moves only that edge's
\* coordinate of the bounds, inward by k pixels.
C3_OneEdge ==
    \A i \in 1..4, k \in 1..MaxOffset :
        (/\ crop_st.pc = "returned"
         /\ crop_st.offsets = OneEdge(i, k)
         /\ k < (IF i \in {1, 3} THEN crop_st.cols ELSE crop_st.rows)) =>
            LET out == crop_st.returned
                b == crop_st.bounds
            IN  /\ ColsOf(out.data, crop_st.data_format) =
                      crop_st.cols - (IF i \in {1, 3} THEN k ELSE 0)
                /\ RowsOf(out.data, crop_st.data_format) =
                      crop_st.rows - (IF i \in {2, 4} THEN k ELSE 0)
                /\ BoundsEq(out.bounds,
                      <<IF i = 1 THEN Moved(b[1], k, XRes(crop_st)) ELSE b[1],
                        IF i = 2 THEN Moved(b[2], k, YRes(crop_st)) ELSE b[2],
                        IF i = 3 THEN Moved(b[3], -k, XRes(crop_st)) ELSE b[3],
                        IF i = 4 THEN Moved(b[4], -k, YRes(crop_st)) ELSE b[4]>>)

(***************************************************************************)
(* read_window                                                              *)
(***************************************************************************)
\* the largest width and height of a source, the largest resolution (in
\* metres per pixel) of a source and of a target
MaxDim == 3
MaxRes == 3
\* the number of pixels of the window that is read
MaxPixels == 2

Abs(x) == IF x < 0 THEN -x ELSE x

\* An optional number: NoneObj, or the number.
Some(v) == [value |-> v]

WEB_MERCATOR_CRS == "EPSG:3857"
WGS84_CRS == "EPSG:4326"

\* The pixel types of the model; float16 stands for the floating types, its
\* minimum being one the model's integers hold.
DTypes == {"uint8", "int16", "float16"}
IsFloating(dtype) == dtype = "float16"

\* _nodata(dtype), lines 78-82: np.finfo(dtype).min or np.iinfo(dtype).min.
SyntheticNodata(dtype) ==
    IF IsFloating(dtype)
    THEN -65504
    ELSE IF dtype = "uint8" THEN 0 ELSE -32768

\* _mask(data, nodata), lines 71-75, on one pixel: masked_values compares
\* with a tolerance (|x - v| <= 1e-8 + 1e-5 |v|, on whole numbers
\* |x - v| <= |v| div 100000), masked_equal compares exactly.
Masked(x, nodata, dtype) ==
    IF IsFloating(dtype)
    THEN Abs(x - nodata) <= Abs(nodata) \div 100000
    ELSE x = nodata

\* ~x on an alpha value of the pixel type.
Invert(x, dtype) == IF dtype = "uint8" THEN 255 - x ELSE -x - 1

RECURSIVE Pow2(_)
Pow2(n) == IF n = 0 THEN 1 ELSE 2 * Pow2(n - 1)

\* get_zoom(resolution, op=math.ceil), lines 146-147, for a whole number of
\* metres: the least z with 2^z >= 2 * pi * 6378137 / (resolution * 256),
\* the circumference being 40075016.69 m.
GetZoomCeil(resolution) ==
    LET m == resolution * 256
        threshold == (40075017 + m - 1) \div m
    IN  CHOOSE z \in 0..27 :
            /\ Pow2(z) >= threshold
            /\ \A y \in 0..(z - 1) : Pow2(y) < threshold

\* "dem" in recipes
DemInRecipes(recipes) == recipes.dem # "absent"

\* lines 170-177: the test for the special case.
IsSpecialCase(recipes, crs, target_resolution, source_resolution) ==
    /\ DemInRecipes(recipes)
    /\ crs = WEB_MERCATOR_CRS
    /\ target_resolution[1] > source_resolution[1]
    /\ target_resolution[2] > source_resolution[2]

\* lines 209-214: the resolution hint, given when overzooming.
ResolutionHint(target_resolution, source_resolution) ==
    IF \/ target_resolution[1] < source_resolution[1]
       \/ target_resolution[2] < source_resolution[2]
    THEN [res |-> target_resolution]
    ELSE NoneObj

\* lines 216-220: the condition of the retry loop.
LoopCondition(st) ==
    /\ st.dst_transform = NoneObj
    /\ st.src.width \div st.scale_factor > 0
    /\ st.src.height \div st.scale_factor > 0

\* The sources read_window is given.  mask_flags are the flags of the
\* source's bands; a source with an alpha band has the alpha flag.
Sources ==
    [width : 1..MaxDim, height : 1..MaxDim,
     nodata : {NoneObj, Some(0), Some(1)},
     dtype : DTypes,
     mask_flags : {{"all_valid"}, {"nodata"}, {"per_dataset"},
                   {"per_dataset", "alpha"}},
     palette : BOOLEAN]

Recipes ==
    [dem : {"absent", "True", "False"},
     nodata : {NoneObj, Some(1)}]

ReadWindowFrame == UNCHANGED <<render_st, crop_st, img_st>>

\* read_window's entry, lines 150-157: the two resolutions are those
\* get_resolution_in_meters and get_resolution return.
ReadWindowInit ==
    /\ render_st = Idle /\ crop_st = Idle /\ img_st = Idle
    /\ \E src \in Sources, recipes \in Recipes,
          crs \in {WEB_MERCATOR_CRS, WGS84_CRS},
          tx \in 1..MaxRes, ty \in 1..MaxRes :
          rw_st = [pc |-> "plan",
                   src |-> src,
                   recipes |-> recipes,
                   crs |-> crs,
                   source_resolution |-> <<2, 2>>,
                   target_resolution |-> <<tx, ty>>,
                   branch |-> None,
                   attempts |-> 0,
                   scale_factor |-> 1,
                   resolution |-> NoneObj,
                   dst_transform |-> NoneObj,
                   calculated |-> <<>>,
                   failure |-> None,
                   nodata |-> NoneObj,
                   src_nodata |-> NoneObj,
                   add_alpha |-> FALSE,
                   resampling |-> None,
                   vrt |-> NoneObj,
                   views_opened |-> 0,
                   error |-> None,
                   returned |-> NoneObj]

\* lines 170-214: the special case fixes the transform on the global grid of
\* the zoom; the generic case sets up the retry loop.
Plan ==
    /\ rw_st.pc = "plan"
    /\ ReadWindowFrame
    /\ rw_st' =
         IF IsSpecialCase(rw_st.recipes, rw_st.crs, rw_st.target_resolution,
                          rw_st.source_resolution)
         THEN LET zoom == Min(22, GetZoomCeil(Max(rw_st.source_resolution[1],
                                                 rw_st.source_resolution[2])))
              IN  [rw_st EXCEPT
                     !.pc = "resolve",
                     !.branch = "special",
                     !.dst_transform = [zoom |-> zoom,
                                        dst_width |-> Pow2(zoom) * 256,
                                        dst_height |-> Pow2(zoom) * 256]]
         ELSE [rw_st EXCEPT
                 !.pc = "loop",
                 !.branch = "generic",
                 !.attempts = 0,
                 !.scale_factor = 1,
                 !.dst_transform = NoneObj,
                 !.resolution = ResolutionHint(rw_st.target_resolution,
                                               rw_st.source_resolution)]

\* lines 216-240, one turn of the loop: warp.calculate_default_transform is
\* called with the scaled dimensions; it returns, and the result is scaled
\* back, or it runs out of memory, and the scale factor is raised.
CalculateTransform ==
    /\ rw_st.pc = "loop"
    /\ LoopCondition(rw_st)
    /\ ReadWindowFrame
    /\ LET w == rw_st.src.width \div rw_st.scale_factor
           h == rw_st.src.height \div rw_st.scale_factor
           called == [rw_st EXCEPT !.calculated = Append(@, <<w, h>>)]
       IN  \E out_of_memory \in BOOLEAN :
              rw_st' =
                IF out_of_memory
                THEN [called EXCEPT
                        !.failure = "MemoryError",
                        !.attempts = rw_st.attempts + 1,
                        !.scale_factor = 2 * (rw_st.attempts + 1)]
                ELSE [called EXCEPT
                        !.dst_transform =
                           [zoom |-> -1,
                            dst_width |-> rw_st.scale_factor * w,
                            dst_height |-> rw_st.scale_factor * h]]

\* lines 216-220: the loop ends when a transform was found or a scaled
\* dimension is zero.
LeaveLoop ==
    /\ rw_st.pc = "loop"
    /\ ~LoopCondition(rw_st)
    /\ ReadWindowFrame
    /\ rw_st' = [rw_st EXCEPT !.pc = "resolve"]

\* src.nodata or _nodata(src.meta["dtype"]), line 260: Python's `or` takes
\* its right side when the left is None or 0.
DeclaredOrSynthetic(src) ==
    IF src.nodata = NoneObj \/ src.nodata.value = 0
    THEN Some(SyntheticNodata(src.dtype))
    ELSE src.nodata

\* lines 255-274: the resampling kernel, the nodata value and the mask
\* preference.
ResolveNodata ==
    /\ rw_st.pc = "resolve"
    /\ ReadWindowFrame
    /\ LET nodata == IF rw_st.recipes.nodata # NoneObj
                     THEN rw_st.recipes.nodata
                     ELSE DeclaredOrSynthetic(rw_st.src)
           prefer_mask == /\ "per_dataset" \in rw_st.src.mask_flags
                          /\ "alpha" \notin rw_st.src.mask_flags
       IN  rw_st' = [rw_st EXCEPT
                       !.pc = "open",
                       !.resampling = IF rw_st.src.palette
                                      THEN "nearest" ELSE "bilinear",
                       !.nodata = nodata,
                       !.src_nodata = IF prefer_mask THEN NoneObj ELSE nodata,
                       !.add_alpha = prefer_mask]

\* lines 276-294: dst_transform.a fails on None with an AttributeError;
\* otherwise the WarpedVRT is opened.  The view's nodata is src_nodata, and
\* it has an alpha band when one is added or the source has one.
OpenView ==
    /\ rw_st.pc = "open"
    /\ ReadWindowFrame
    /\ rw_st' =
         IF rw_st.dst_transform = NoneObj
         THEN [rw_st EXCEPT !.pc = "raised", !.error = "AttributeError"]
         ELSE [rw_st EXCEPT
                 !.pc = "read",
                 !.views_opened = @ + 1,
                 !.vrt = [nodata |-> rw_st.src_nodata,
                          alpha |-> rw_st.add_alpha
                                    \/ "alpha" \in rw_st.src.mask_flags,
                          resampling |-> rw_st.resampling,
                          open |-> TRUE]]

\* The values a pixel of the type can be read as.
PixelValues(dtype) == {0, 1, SyntheticNodata(dtype)}

\* lines 297-313: the window is read (one band of MaxPixels pixels, and the
\* alpha band when the view has one), masked by the alpha band or by the
\* view's nodata value, the view is closed and the PixelCollection returned.
\* ~ on a floating alpha band is a TypeError.
ReadAndMask ==
    /\ rw_st.pc = "read"
    /\ ReadWindowFrame
    /\ \E band \in [1..MaxPixels -> PixelValues(rw_st.src.dtype)],
          alpha \in IF rw_st.vrt.alpha
                    THEN [1..MaxPixels -> {0, 255}]
                    ELSE {[i \in 1..MaxPixels |-> 255]} :
          LET closed == [rw_st EXCEPT !.vrt.open = FALSE]
              dtype == rw_st.src.dtype
          IN  rw_st' =
                IF rw_st.vrt.alpha
                THEN IF IsFloating(dtype)
                     THEN [closed EXCEPT !.pc = "raised",
                                         !.error = "TypeError"]
                     ELSE [closed EXCEPT
                             !.pc = "returned",
                             !.returned =
                                [data |-> band,
                                 mask |-> [i \in 1..MaxPixels |->
                                             Invert(alpha[i], dtype) # 0]]]
                ELSE IF rw_st.nodata # NoneObj /\ rw_st.vrt.nodata # NoneObj
                THEN [closed EXCEPT
                        !.pc = "returned",
                        !.returned =
                           [data |-> band,
                            mask |-> [i \in 1..MaxPixels |->
                                        Masked(band[i], rw_st.vrt.nodata.value,
                                               dtype)]]]
                ELSE [closed EXCEPT
                        !.pc = "returned",
                        !.returned =
                           [data |-> band,
                            mask |-> [i \in 1..MaxPixels |-> FALSE]]]

ReadWindowNext ==
    \/ Plan
    \/ CalculateTransform
    \/ LeaveLoop
    \/ ResolveNodata
    \/ OpenView
    \/ ReadAndMask

SpecReadWindow == ReadWindowInit /\ [][ReadWindowNext]_vars

(***************************************************************************)
(* Claims about read_window                                                 *)
(***************************************************************************)
\* Every call of the calculator ran out of memory.
EveryAttemptFailed ==
    /\ rw_st.branch = "generic"
    /\ rw_st.dst_transform = NoneObj
    /\ rw_st.pc \notin {"plan", "loop"}

\* C5: when every attempt of the generic branch runs out of memory, the loop
\* ends, the calculator was never called with a width or height of zero, and
\* read_window ends by raising the memory failure, with no view opened and
\* nothing returned.
C5_RetryAborts ==
    EveryAttemptFailed =>
        /\ \A i \in 1..Len(rw_st.calculated) :
              rw_st.calculated[i][1] > 0 /\ rw_st.calculated[i][2] > 0
        /\ rw_st.views_opened = 0
        /\ rw_st.returned = NoneObj
        /\ rw_st.pc = "raised" => rw_st.error = "MemoryError"

\* C6: for a source that declares a nodata value v, with no override in the
\* recipe and no mask or alpha band, the nodata value in use is v and a pixel
\* of the result is masked exactly when it equals v.
C6_DeclaredNodata ==
    (/\ rw_st.pc = "returned"
     /\ rw_st.src.nodata # NoneObj
     /\ rw_st.recipes.nodata = NoneObj
     /\ rw_st.src.mask_flags \in {{"all_valid"}, {"nodata"}}) =>
        /\ rw_st.nodata = rw_st.src.nodata
        /\ rw_st.vrt.nodata = rw_st.src.nodata
        /\ \A i \in 1..MaxPixels :
              rw_st.returned.mask[i] <=>
                 (rw_st.returned.data[i] = rw_st.src.nodata.value)

\* The recipe's dem option is set, and set to true.
DemEnabled(recipes) == recipes.dem = "True"

\* C9: the special case is taken exactly when the recipe's dem option is
\* enabled, the target CRS is web Mercator and the target resolution is
\* strictly coarser than the source's in both axes; the generic branch
\* otherwise.
C9_SpecialCase ==
    rw_st.pc # "plan" =>
        /\ rw_st.branch \in {"special", "generic"}
        /\ rw_st.branch = "special" <=>
              /\ DemEnabled(rw_st.recipes)
              /\ rw_st.crs = WEB_MERCATOR_CRS
              /\ rw_st.target_resolution[1] > rw_st.source_resolution[1]
              /\ rw_st.target_resolution[2] > rw_st.source_resolution[2]

(***************************************************************************)
(* Image.transform                                                          *)
(***************************************************************************)
\* the largest band count, and the rows and columns, of the buffer given to
\* Image.transform
MaxCount == 5
ImgRows == 1
ImgCols == 1

\* ndarray.astype(np.uint8) on a non-negative whole value.
AsUint8(x) == x % 256

\* np.ma.transpose(a, [1, 2, 0]): bands x rows x columns becomes
\* rows x columns x bands.
Transpose120(a) ==
    LET shape == <<a.shape[2], a.shape[3], a.shape[1]>>
    IN  [shape |-> shape,
         at |-> [ix \in Index(shape) |-> a.at[<<ix[3], ix[1], ix[2]>>]]]

\* data *= np.iinfo(np.uint8).max on a masked array, line 21: in place, the
\* masked elements are left as they are.
ScaleInPlace(pixels) ==
    [pixels EXCEPT !.data.at =
        [ix \in Index(pixels.data.shape) |->
            IF pixels.mask.at[ix] THEN pixels.data.at[ix]
                                  ELSE pixels.data.at[ix] * 255]]

\* lines 19-21: float32 data is expanded in the buffer that was passed in.
Expanded(pixels) ==
    IF pixels.dtype = "float32" THEN ScaleInPlace(pixels) ELSE pixels

\* line 16: 3 > count > 4 is 3 > count and count > 4.
BadBandCount(count) == 3 > count /\ count > 4

\* lines 23-33 on the (expanded) data: four bands are transposed, mask kept;
\* otherwise an alpha band, 255 where no band is masked, is stacked on the
\* transposed bands by np.dstack, which returns a plain array.
ToRGBA(pixels) ==
    LET data == pixels.data
        count == data.shape[1]
        u8 == [shape |-> data.shape,
               at |-> [ix \in Index(data.shape) |-> AsUint8(data.at[ix])]]
        stacked == <<data.shape[2], data.shape[3], count + 1>>
        any_masked == \E ix \in DOMAIN pixels.mask.at : pixels.mask.at[ix]
        a(r, c) == IF any_masked
                   THEN IF \A b \in 0..(count - 1) : ~pixels.mask.at[<<b, r, c>>]
                        THEN 255 ELSE 0
                   ELSE 255
    IN  IF count = 4
        THEN [data |-> Transpose120(u8),
              mask |-> Transpose120(pixels.mask),
              data_format |-> "RGBA"]
        ELSE [data |-> [shape |-> stacked,
                        at |-> [ix \in Index(stacked) |->
                                  IF ix[3] < count
                                  THEN u8.at[<<ix[3], ix[1], ix[2]>>]
                                  ELSE a(ix[1], ix[2])]],
              mask |-> NoneObj,
              data_format |-> "RGBA"]

\* The values of a pixel: a byte, or a normalized float32.
ImgValues(dtype) == IF dtype = "float32" THEN {0, 1} ELSE {0, 200}

ImageFrame == UNCHANGED <<render_st, crop_st, rw_st>>

\* The PixelCollection handed to Image.transform, and a copy of it as it was
\* on entry.
ImageInit ==
    /\ render_st = Idle /\ crop_st = Idle /\ rw_st = Idle
    /\ \E count \in 1..MaxCount, dtype \in {"uint8", "float32"} :
          LET shape == <<count, ImgRows, ImgCols>>
              index == Index(shape)
          IN  \E values \in [index -> ImgValues(dtype)],
                 masks \in [index -> BOOLEAN] :
                 LET pixels == [data |-> [shape |-> shape, at |-> values],
                                mask |-> [shape |-> shape, at |-> masks],
                                dtype |-> dtype]
                 IN  img_st = [pc |-> "call",
                               pixels |-> pixels,
                               on_entry |-> pixels,
                               error |-> None,
                               returned |-> NoneObj]

\* Image.transform(pixels), lines 12-33.
ImageTransform ==
    /\ img_st.pc = "call"
    /\ ImageFrame
    /\ img_st' =
         IF BadBandCount(img_st.pixels.data.shape[1])
         THEN [img_st EXCEPT !.pc = "raised", !.error = "Exception"]
         ELSE LET expanded == Expanded(img_st.pixels)
              IN  [img_st EXCEPT !.pc = "returned",
                                 !.pixels = expanded,
                                 !.returned = ToRGBA(expanded)]

ImageNext == ImageTransform

SpecImage == ImageInit /\ [][ImageNext]_vars

(***************************************************************************)
(* Claims about Image.transform                                             *)
(***************************************************************************)
\* C7: Image.transform raises for every band count other than 3 and 4, and
\* returns a result for 3 and 4 only.
C7_BandCount ==
    img_st.pc # "call" =>
        (img_st.pc = "returned" <=> img_st.pixels.data.shape[1] \in {3, 4})

\* C8: Image.transform leaves the buffer it was given as it was: data and
\* mask are the same after the call as before it.
C8_InputNotMutated ==
    img_st.pc # "call" =>
        /\ img_st.pixels.data = img_st.on_entry.data
        /\ img_st.pixels.mask = img_st.on_entry.mask

(***************************************************************************)
(* Claims about render                                                      *)
(***************************************************************************)
\* render is over: it raised or it returned.
RenderOver == render_st.pc \in {"raised", "returned"}

\* The resolved source list (given, or returned by the catalog) is empty.
ResolvedEmpty ==
    /\ render_st.sources # NoneObj
    /\ render_st.sources.items = <<>>
    /\ render_st.pc \notin {"start", "expand", "get_sources"}

\* The compositor returned a PixelCollection without data.
CompositedNothing ==
    /\ "composite" \in Range(render_st.calls)
    /\ render_st.pixels = None

\* C1: with an empty resolved source list, or with a composite that has no
\* data, render never calls transform, postprocess or the formatter, returns
\* nothing, and ends by raising NoDataAvailable.
C1_NoDataAvailable ==
    (ResolvedEmpty \/ CompositedNothing) =>
        /\ Range(render_st.calls) \cap {"transform", "postprocess", "format"} = {}
        /\ render_st.returned = NoneObj
        /\ render_st.pc # "returned"
        /\ render_st.pc = "raised" => render_st.error = "NoDataAvailable"
        /\ render_st.pc \in {"materialize", "check_data", "raised"}

C1_Witness ==
    /\ render_st.pc = "raised"
    /\ render_st.error = "NoDataAvailable"
    /\ CompositedNothing
    /\ render_st.args.transformation # None

\* C2: called with neither sources nor a catalog, render raises its
\* configuration error (the Exception of line 332) before any collaborator
\* (expand, the catalog, the compositor, the formatter) is called.
C2_NeitherSourcesNorCatalog ==
    (render_st.args.sources = NoneObj /\ render_st.args.catalog = None) =>
        /\ render_st.calls = <<>>
        /\ render_st.returned = NoneObj
        /\ render_st.pc \in {"start", "raised"}
        /\ render_st.pc = "raised" => render_st.error = "Exception"

C2_Witness ==
    /\ render_st.pc = "raised"
    /\ render_st.error = "Exception"
    /\ render_st.args.transformation # None

\* The labels of the stats, in order.
Labels(stats) == [i \in 1..Len(stats) |-> stats[i][1]]

\* The labels a successful render records, by its arguments.
ExpectedLabels(args) ==
    (IF args.sources = NoneObj THEN <<"Get Sources">> ELSE <<>>)
    \o <<"Composite">>
    \o (IF args.transformation # None
        THEN <<"Transform", "Post-process">> ELSE <<>>)
    \o <<"Format">>

\* The timing header lists the stats in order, then the sources used.
TimingListsStatsThenSources(timing, stats, used) ==
    /\ Len(timing) = Len(stats) + Len(used)
    /\ \A i \in 1..Len(stats) :
          /\ timing[i].kind = "op"
          /\ timing[i].desc = stats[i][1]
          /\ timing[i].dur = stats[i][2]
    /\ \A j \in 1..Len(used) :
          /\ timing[Len(stats) + j].kind = "src"
          /\ timing[Len(stats) + j].desc = used[j]

\* C10: the stats only grow by appending; a render that returns has recorded
\* exactly the labels "Get Sources" (when the catalog gave the sources),
\* "Composite", "Transform" and "Post-process" (when a transformation was
\* given), "Format", in this order, and its timing header lists these stats in
\* that order followed by one entry per source used.
C10_StatsOrder ==
    /\ [](render_st.pc = "returned" =>
            /\ Labels(render_st.stats) = ExpectedLabels(render_st.args)
            /\ TimingListsStatsThenSources(
                   render_st.returned.headers.server_timing,
                   render_st.stats, render_st.sources_used))
    /\ [][IsPrefix(render_st.stats, render_st'.stats)]_vars

C10_Witness ==
    /\ render_st.pc = "returned"
    /\ render_st.args.sources = NoneObj
    /\ render_st.args.transformation # None
    /\ Len(render_st.sources_used) = 2

====
